---- MODULE Spec2Model ----
(***************************************************************************)
(* Model of the Stock-Analysis dashboard: the Streamlit session of app.py, *)
(* the Yahoo Finance wrapper of stock_analyzer.py and the helpers of       *)
(* utils.py.                                                               *)
(*                                                                         *)
(* Python values are records; a str is [type |-> "str", s |-> <<chars>>],  *)
(* a sequence of one-character strings, so that strip(), upper() and       *)
(* re.match() work on characters.  A call's outcome is either              *)
(* [kind |-> "return", value |-> v] or [kind |-> "raise"].                 *)
(***************************************************************************)
EXTENDS Integers, Sequences, FiniteSets

VARIABLES
    \* ---- app.py: st.session_state and what the last script run rendered
    stock_data,        \* st.session_state.stock_data
    current_symbol,    \* st.session_state.current_symbol
    screen,            \* what the last run of main() rendered
    last_fetch,        \* history: the most recent call of get_stock_data
    last_success,      \* history: the bundle of the most recent successful fetch
    \* ---- stock_analyzer.py: one call of get_stock_data / _get_financial_data
    f_symbol, f_ticker, f_result, f_financial,
    \* ---- stock_analyzer.py: get_market_summary, one loop iteration per step
    m_provider, m_todo, market_data, m_pc,
    \* ---- utils.py: validate_symbol
    v_input, v_result,
    \* ---- utils.py: format_currency
    c_value, c_result,
    \* ---- utils.py: the summary statistics
    prices, window, returns, volatility, sharpe, max_drawdown, trend,
    \* ---- stock_analyzer.py: calculate_technical_indicators
    t_history, indicators

sessionVars == <<stock_data, current_symbol, screen, last_fetch, last_success>>
fetchVars   == <<f_symbol, f_ticker, f_result, f_financial>>
marketVars  == <<m_provider, m_todo, market_data, m_pc>>
validVars   == <<v_input, v_result>>
formatVars  == <<c_value, c_result>>
statVars    == <<prices, window, returns, volatility, sharpe, max_drawdown, trend>>
techVars    == <<t_history, indicators>>
vars == <<sessionVars, fetchVars, marketVars, validVars, formatVars, statVars, techVars>>

(***************************************************************************)
(* Python values and outcomes                                              *)
(***************************************************************************)
None == [type |-> "NoneType"]
Str(s) == [type |-> "str", s |-> s]
PyInt(n) == [type |-> "int", n |-> n]

\* float values: NaN, +/-inf, or the number num/den in lowest terms (den > 0).
NaN == [type |-> "float", kind |-> "nan"]
Inf(sign) == [type |-> "float", kind |-> "inf", sign |-> sign]

Abs(n) == IF n < 0 THEN -n ELSE n
Sign(n) == IF n < 0 THEN -1 ELSE IF n > 0 THEN 1 ELSE 0

RECURSIVE GCD(_, _)
GCD(a, b) == IF b = 0 THEN a ELSE GCD(b, a % b)

Num(n, d) ==
    LET g == GCD(Abs(n), Abs(d))
    IN  [type |-> "float", kind |-> "num",
         num |-> Sign(d) * (n \div g), den |-> Abs(d) \div g]

\* a / b on floats that hold the integers a and b: dividing by zero gives
\* nan or +/-inf (numpy.float64 warns, it does not raise).
fdiv(a, b) ==
    IF b = 0 THEN (IF a = 0 THEN NaN ELSE Inf(Sign(a))) ELSE Num(a, b)

\* x * k for a float x and a positive integer k
fmul(x, k) == IF x.kind = "num" THEN Num(x.num * k, x.den) ELSE x

Return(v) == [kind |-> "return", value |-> v]
Raise == [kind |-> "raise"]
Pending == [kind |-> "pending"]

\* Python truthiness of the values the model uses ("not x" is ~Truthy(x)).
Truthy(x) ==
    CASE x.type = "NoneType" -> FALSE
      [] x.type = "str" -> x.s # <<>>
      [] x.type = "int" -> x.n # 0
      [] OTHER -> TRUE

SeqsUpTo(A, n) == UNION {[1..k -> A] : k \in 0..n}

Min(S) == CHOOSE x \in S : \A y \in S : x <= y
Max(S) == CHOOSE x \in S : \A y \in S : x >= y

(***************************************************************************)
(* Characters                                                              *)
(***************************************************************************)
LowerLetters == <<"a","b","c","d","e","f","g","h","i","j","k","l","m",
                  "n","o","p","q","r","s","t","u","v","w","x","y","z">>
UpperLetters == <<"A","B","C","D","E","F","G","H","I","J","K","L","M",
                  "N","O","P","Q","R","S","T","U","V","W","X","Y","Z">>
AZ == {UpperLetters[i] : i \in 1..Len(UpperLetters)}
Whitespace == {" ", "\t", "\n"}

\* str.upper() on one character: a-z map to A-Z, everything else is kept.
UpperMap ==
    [c \in {LowerLetters[i] : i \in 1..Len(LowerLetters)} |->
        UpperLetters[CHOOSE i \in 1..Len(LowerLetters) : LowerLetters[i] = c]]

upper_char(c) == IF c \in DOMAIN UpperMap THEN UpperMap[c] ELSE c

\* str.upper()
upper(s) == [i \in 1..Len(s) |-> upper_char(s[i])]

RECURSIVE lstrip(_)
lstrip(s) == IF s # <<>> /\ Head(s) \in Whitespace THEN lstrip(Tail(s)) ELSE s

RECURSIVE rstrip(_)
rstrip(s) ==
    IF s # <<>> /\ s[Len(s)] \in Whitespace
    THEN rstrip(SubSeq(s, 1, Len(s) - 1))
    ELSE s

\* str.strip()
strip(s) == rstrip(lstrip(s))

(***************************************************************************)
(* utils.py: validate_symbol                                               *)
(***************************************************************************)
\* The quantifier limits of the pattern ^[A-Z]{1,5}(\.[A-Z]{1,2})?$
MaxLetters == 5
MaxSuffix == 2

\* re.match(pattern, s) as the automaton of the pattern, read character by
\* character.  "$" also matches just before one trailing newline.
ReStart == [part |-> "start", n |-> 0]
ReFail == [part |-> "fail", n |-> 0]

re_step(q, c) ==
    CASE q.part = "start" /\ c \in AZ -> [part |-> "letters", n |-> 1]
      [] q.part = "letters" /\ c \in AZ /\ q.n < MaxLetters ->
            [part |-> "letters", n |-> q.n + 1]
      [] q.part = "letters" /\ c = "." -> [part |-> "dot", n |-> 0]
      [] q.part = "dot" /\ c \in AZ -> [part |-> "suffix", n |-> 1]
      [] q.part = "suffix" /\ c \in AZ /\ q.n < MaxSuffix ->
            [part |-> "suffix", n |-> q.n + 1]
      [] q.part \in {"letters", "suffix"} /\ c = "\n" -> [part |-> "newline", n |-> 0]
      [] OTHER -> ReFail

RECURSIVE re_run(_, _)
re_run(q, s) == IF s = <<>> THEN q ELSE re_run(re_step(q, Head(s)), Tail(s))

re_match(s) == re_run(ReStart, s).part \in {"letters", "suffix", "newline"}

\* validate_symbol had it matched the pattern without strip() (faulty variant).
validate_symbol_nostrip(symbol) ==
    IF ~Truthy(symbol) \/ symbol.type # "str"
    THEN FALSE
    ELSE LET s == upper(symbol.s) IN re_match(s) /\ Len(s) >= 1

validate_symbol(symbol) ==
    IF ~Truthy(symbol) \/ symbol.type # "str"
    THEN FALSE
    ELSE LET s == upper(strip(symbol.s)) IN re_match(s) /\ Len(s) >= 1

(***************************************************************************)
(* stock_analyzer.py: the provider (yfinance) as seen through one Ticker   *)
(***************************************************************************)
MaxRows == 2

\* What one provider lookup does: it raises, or yields a table of `rows` rows
\* (rows = 0 is DataFrame.empty).
LookupRaises == [raises |-> TRUE, rows |-> 0]
Table(n) == [raises |-> FALSE, rows |-> n]
Lookups == {LookupRaises} \cup {Table(n) : n \in 0..MaxRows}

\* ticker.info: the lookup raises, or yields a dict with these keys.
InfoRaises == [raises |-> TRUE, keys |-> {}]
Info(keys) == [raises |-> FALSE, keys |-> keys]
Infos == {InfoRaises, Info({}), Info({"longName"}), Info({"symbol", "longName"})}

FinancialKeys == <<"quarterly_financials", "balance_sheet", "cashflow">>

\* Every answer the provider can give for one symbol and period.
Tickers ==
    [ctor_raises : {FALSE}, info : Infos, history : Lookups,
     quarterly_financials : Lookups, balance_sheet : Lookups, cashflow : Lookups]
    \cup
    [ctor_raises : {TRUE}, info : {InfoRaises}, history : {LookupRaises},
     quarterly_financials : {LookupRaises}, balance_sheet : {LookupRaises},
     cashflow : {LookupRaises}]

\* dict with one more key
DictSet(d, k, v) == [x \in DOMAIN d \cup {k} |-> IF x = k THEN v ELSE d[x]]
EmptyDict == [x \in {} |-> 0]

(***************************************************************************)
(* StockAnalyzer._get_financial_data                                       *)
(***************************************************************************)
\* The body of the try block: the three lookups in order; the first one that
\* raises leaves the block with financial_data as filled so far.
RECURSIVE financial_try(_, _, _)
financial_try(ticker, i, financial_data) ==
    IF i > Len(FinancialKeys) THEN financial_data
    ELSE LET key == FinancialKeys[i]
             table == ticker[key]
         IN  IF table.raises THEN financial_data
             ELSE financial_try(ticker, i + 1,
                    IF table.rows # 0
                    THEN DictSet(financial_data, key, table.rows)
                    ELSE financial_data)

_get_financial_data(ticker) == Return(financial_try(ticker, 1, EmptyDict))

(***************************************************************************)
(* StockAnalyzer.get_stock_data                                            *)
(***************************************************************************)
Bundle(info, history, financials, symbol) ==
    [type |-> "dict", info |-> info, history |-> history,
     financials |-> financials, symbol |-> symbol]

\* The body of the try block (lines 24-48).  `period` selects the history the
\* provider answers with; `ticker` holds the provider's answers for it.
get_stock_data_try(symbol, period, ticker) ==
    IF ticker.ctor_raises THEN Raise
    ELSE IF ticker.info.raises THEN Raise
    ELSE IF ticker.info.keys = {} \/ "symbol" \notin ticker.info.keys THEN Return(None)
    ELSE IF ticker.history.raises THEN Raise
    ELSE IF ticker.history.rows = 0 THEN Return(None)
    ELSE LET financials == _get_financial_data(ticker)
         IN  IF financials.kind = "raise" THEN Raise
             ELSE IF symbol.type # "str" THEN Raise
             ELSE Return(Bundle(ticker.info.keys, ticker.history.rows,
                                financials.value, Str(upper(symbol.s))))

\* get_stock_data had it no except clause (faulty variant).
get_stock_data_noexcept(symbol, period, ticker) ==
    get_stock_data_try(symbol, period, ticker)

\* try: ... except Exception: st.error(...); return None
get_stock_data(symbol, period, ticker) ==
    LET body == get_stock_data_try(symbol, period, ticker)
    IN  IF body.kind = "raise" THEN Return(None) ELSE body

(***************************************************************************)
(* app.py: the Streamlit session                                           *)
(***************************************************************************)
popular_stocks ==
    << <<"A","A","P","L">>, <<"M","S","F","T">>, <<"G","O","O","G","L">>,
       <<"T","S","L","A">>, <<"A","M","Z","N">>, <<"M","E","T","A">>,
       <<"N","V","D","A">>, <<"N","F","L","X">> >>

\* timeframe_options.values()
Periods == {"1mo", "3mo", "6mo", "1y", "2y", "5y"}

\* Texts a user types into the sidebar box (st.text_input returns them as typed).
TextInputs ==
    { <<>>,
      <<"a","a","p","l">>,
      <<" ","a","a","p","l">>,
      <<"b","r","k",".","b">>,
      <<"1","2","3">>,
      <<"t","o","o","l","o","n","g">> }

\* The provider's answers a session meets: every way get_stock_data can end.
FullTables(t) ==
    [ctor_raises |-> FALSE, info |-> Info({"symbol", "longName"}), history |-> Table(1),
     quarterly_financials |-> t, balance_sheet |-> Table(1), cashflow |-> Table(1)]

SessionTickers ==
    { [ctor_raises |-> TRUE, info |-> InfoRaises, history |-> LookupRaises,
       quarterly_financials |-> LookupRaises, balance_sheet |-> LookupRaises,
       cashflow |-> LookupRaises],
      [FullTables(Table(1)) EXCEPT !.info = Info({})],
      [FullTables(Table(1)) EXCEPT !.history = LookupRaises],
      [FullTables(Table(1)) EXCEPT !.history = Table(0)],
      FullTables(Table(1)),
      FullTables(Table(0)),
      FullTables(LookupRaises),
      [FullTables(Table(1)) EXCEPT !.history = Table(MaxRows)] }

NoFetch == [called |-> FALSE]
Fetch(symbol, period) == [called |-> TRUE, symbol |-> symbol, period |-> period]

\* analyze_stock: the new stock_data and what is rendered, given the current
\* stock_data, the provider's answer and whether display_analysis raises.
\* analyze_stock had it stored the result before testing it for None
\* (faulty variant).
analyze_stock_eager(symbol, period, ticker, display_raises, sd) ==
    LET r == get_stock_data(symbol, period, ticker)
    IN  IF r.kind = "raise" THEN [stock_data |-> sd, screen |-> "analysis_error"]
        ELSE IF r.value = None THEN [stock_data |-> r.value, screen |-> "fetch_error"]
        ELSE IF display_raises THEN [stock_data |-> r.value, screen |-> "analysis_error"]
        ELSE [stock_data |-> r.value, screen |-> "analysis"]

analyze_stock(symbol, period, ticker, display_raises, sd) ==
    LET r == get_stock_data(symbol, period, ticker)
    IN  IF r.kind = "raise" THEN [stock_data |-> sd, screen |-> "analysis_error"]
        ELSE IF r.value = None THEN [stock_data |-> sd, screen |-> "fetch_error"]
        ELSE IF display_raises THEN [stock_data |-> r.value, screen |-> "analysis_error"]
        ELSE [stock_data |-> r.value, screen |-> "analysis"]

\* The bundle of a fetch that succeeded, else the one before (history variable).
Succeeded(symbol, period, ticker, before) ==
    LET r == get_stock_data(symbol, period, ticker)
    IN  IF r.kind = "return" /\ r.value # None THEN r.value ELSE before

\* Lines 89-106 of main(): no analysis was started by the sidebar in this run.
RenderIdle(display_raises) ==
    screen' = IF stock_data # None
              THEN IF display_raises THEN "exception" ELSE "analysis"
              ELSE "welcome"

\* A run of main() with the Analyze button pressed and `text` in the box.
AnalyzeClick ==
    \E text \in TextInputs \cup {current_symbol.s} :
        LET symbol == Str(upper(text)) IN
        IF Truthy(symbol)
        THEN IF validate_symbol(symbol)
             THEN \E period \in Periods, ticker \in SessionTickers,
                     display_raises \in BOOLEAN :
                    LET a == analyze_stock(symbol, period, ticker, display_raises, stock_data)
                    IN  /\ current_symbol' = symbol
                        /\ stock_data' = a.stock_data
                        /\ screen' = a.screen
                        /\ last_fetch' = Fetch(symbol, period)
                        /\ last_success' = Succeeded(symbol, period, ticker, last_success)
             ELSE /\ screen' = "invalid_symbol"
                  /\ UNCHANGED <<stock_data, current_symbol, last_fetch, last_success>>
        ELSE \E display_raises \in BOOLEAN :
                /\ RenderIdle(display_raises)
                /\ UNCHANGED <<stock_data, current_symbol, last_fetch, last_success>>

\* A run of main() with one popular-stock button pressed: the buttons are
\* rendered only on the welcome screen (no cached bundle).
PopularClick ==
    \E i \in 1..Len(popular_stocks), ticker \in SessionTickers,
       display_raises \in BOOLEAN :
        /\ stock_data = None
        /\ LET stock == Str(popular_stocks[i])
               a == analyze_stock(stock, "1y", ticker, display_raises, stock_data)
           IN  /\ current_symbol' = stock
               /\ stock_data' = a.stock_data
               /\ screen' = a.screen
               /\ last_fetch' = Fetch(stock, "1y")
               /\ last_success' = Succeeded(stock, "1y", ticker, last_success)

\* A run of main() caused by any other widget (timeframe, chart type, download).
Rerun ==
    \E display_raises \in BOOLEAN :
        /\ RenderIdle(display_raises)
        /\ UNCHANGED <<stock_data, current_symbol, last_fetch, last_success>>

SessionInit ==
    /\ stock_data = None
    /\ current_symbol = Str(<<>>)
    /\ screen = "welcome"
    /\ last_fetch = NoFetch
    /\ last_success = None

(***************************************************************************)
(* The parts of the state a specification does not use stay as constructed *)
(***************************************************************************)
FetchIdle ==
    /\ f_symbol = None
    /\ f_ticker = None
    /\ f_result = Pending
    /\ f_financial = Pending

MarketIdle ==
    /\ m_provider = None
    /\ m_todo = <<>>
    /\ market_data = EmptyDict
    /\ m_pc = "idle"

ValidIdle == v_input = None /\ v_result = Pending

FormatIdle == c_value = None /\ c_result = Pending

StatIdle ==
    /\ prices = <<>>
    /\ window = 0
    /\ returns = Pending
    /\ volatility = Pending
    /\ sharpe = Pending
    /\ max_drawdown = Pending
    /\ trend = Pending

TechIdle == t_history = <<>> /\ indicators = Pending

(***************************************************************************)
(* Spec: one browser session of app.py                                     *)
(***************************************************************************)
Init == SessionInit /\ FetchIdle /\ MarketIdle /\ ValidIdle /\ FormatIdle /\ StatIdle /\ TechIdle

Next ==
    \/ AnalyzeClick /\ UNCHANGED <<fetchVars, marketVars, validVars, formatVars, statVars, techVars>>
    \/ PopularClick /\ UNCHANGED <<fetchVars, marketVars, validVars, formatVars, statVars, techVars>>
    \/ Rerun /\ UNCHANGED <<fetchVars, marketVars, validVars, formatVars, statVars, techVars>>

Spec == Init /\ [][Next]_vars

\* The Symbol syntax ^[A-Z]{1,5}(\.[A-Z]{1,2})?$ stated on the whole string:
\* k letters, then nothing or a dot and one or two letters.
IsSymbolSyntax(s) ==
    \E k \in 1..MaxLetters :
        /\ k <= Len(s)
        /\ \A i \in 1..k : s[i] \in AZ
        /\ \/ Len(s) = k
           \/ /\ Len(s) - k - 1 \in 1..MaxSuffix
              /\ s[k + 1] = "."
              /\ \A i \in (k + 2)..Len(s) : s[i] \in AZ

\* C1: at every point of a session stock_data is the bundle of the most recent
\* successful fetch, or None if there has been none: a fetch that ends in
\* NotFound or raises leaves it as it was, a successful one replaces it whole.
C1_CacheIsLastSuccessfulBundle == stock_data = last_success

\* A failed fetch for another symbol happened while a bundle was cached.
C1_Witness ==
    /\ stock_data # None
    /\ screen = "fetch_error"
    /\ last_fetch.called
    /\ last_fetch.symbol # stock_data.symbol

\* C2: every symbol the application passes to get_stock_data matches the
\* Symbol syntax at the moment of the call.
C2_FetchedSymbolMatchesSyntax ==
    last_fetch.called => IsSymbolSyntax(last_fetch.symbol.s)

\* C12: whenever stock_data is not None, current_symbol equals the symbol of
\* the cached bundle, so the export file name built from current_symbol names
\* the stock whose data is exported.
C12_CurrentSymbolNamesCachedBundle ==
    stock_data # None => current_symbol = stock_data.symbol

(***************************************************************************)
(* SpecFetch: one call of get_stock_data and of _get_financial_data        *)
(***************************************************************************)
Symbols == {Str(<<"a","a","p","l">>), Str(<<"B","R","K",".","B">>)}

FetchInit ==
    /\ f_symbol \in Symbols
    /\ f_ticker \in Tickers
    /\ f_result = Pending
    /\ f_financial = Pending

FetchStockData ==
    /\ f_result = Pending
    /\ \E period \in Periods : f_result' = get_stock_data(f_symbol, period, f_ticker)
    /\ UNCHANGED <<f_symbol, f_ticker, f_financial>>

\* _get_financial_data takes a Ticker object, so one was constructed.
FetchFinancialData ==
    /\ f_financial = Pending
    /\ ~f_ticker.ctor_raises
    /\ f_financial' = _get_financial_data(f_ticker)
    /\ UNCHANGED <<f_symbol, f_ticker, f_result>>

InitFetch == SessionInit /\ FetchInit /\ MarketIdle /\ ValidIdle /\ FormatIdle /\ StatIdle /\ TechIdle

NextFetch ==
    \/ FetchStockData /\ UNCHANGED <<sessionVars, marketVars, validVars, formatVars, statVars, techVars>>
    \/ FetchFinancialData /\ UNCHANGED <<sessionVars, marketVars, validVars, formatVars, statVars, techVars>>

SpecFetch == InitFetch /\ [][NextFetch]_vars

\* The provider gave no usable data: a lookup raised, info is empty or has no
\* 'symbol', or the history is empty.
NotFoundCase(ticker) ==
    \/ ticker.ctor_raises
    \/ ticker.info.raises
    \/ ticker.info.keys = {}
    \/ "symbol" \notin ticker.info.keys
    \/ ticker.history.raises
    \/ ticker.history.rows = 0

\* C3: get_stock_data never raises; it returns None exactly in the NotFound
\* cases, and otherwise a bundle of the info, the non-empty history, a
\* financials mapping and the upper-cased symbol, whatever the statements do.
C3_NotFoundOrBundle ==
    f_result # Pending =>
        /\ f_result.kind = "return"
        /\ (f_result.value = None) <=> NotFoundCase(f_ticker)
        /\ ~NotFoundCase(f_ticker) =>
              /\ f_result.value.info = f_ticker.info.keys
              /\ f_result.value.history = f_ticker.history.rows
              /\ f_result.value.history > 0
              /\ DOMAIN f_result.value.financials \subseteq
                    {FinancialKeys[i] : i \in 1..Len(FinancialKeys)}
              /\ f_result.value.symbol = Str(upper(f_symbol.s))

\* A fetch succeeded although a financial statement lookup raised.
C3_Witness ==
    /\ f_result # Pending
    /\ f_result.value # None
    /\ f_ticker.quarterly_financials.raises
    /\ f_ticker.cashflow.rows = 0

\* C4: _get_financial_data never raises, and each table's key is in the result
\* exactly when the provider yields a non-empty table for it, whatever the
\* other two lookups do.
C4_TablesIndependent ==
    f_financial # Pending =>
        /\ f_financial.kind = "return"
        /\ \A i \in 1..Len(FinancialKeys) :
              (FinancialKeys[i] \in DOMAIN f_financial.value)
                 <=> (~f_ticker[FinancialKeys[i]].raises
                        /\ f_ticker[FinancialKeys[i]].rows # 0)

(***************************************************************************)
(* SpecMarket: StockAnalyzer.get_market_summary, one loop iteration a step *)
(***************************************************************************)
MaxClose == 1

\* hist = ticker.history(period="2d"): at most two rows
HistDays == 2

indices ==
    << [name |-> "S&P 500", symbol |-> "^GSPC"],
       [name |-> "Dow Jones", symbol |-> "^DJI"],
       [name |-> "NASDAQ", symbol |-> "^IXIC"],
       [name |-> "Russell 2000", symbol |-> "^RUT"] >>

IndexSymbols == {indices[i].symbol : i \in 1..Len(indices)}

\* What the history lookup of one index does: it raises, or yields the Close
\* column (empty when the frame is empty).
Histories ==
    {[raises |-> TRUE, Close |-> <<>>]} \cup
    {[raises |-> FALSE, Close |-> c] : c \in SeqsUpTo(0..MaxClose, HistDays)}

\* The entry computed from a non-empty history (lines 187-196).
market_entry(hist) ==
    LET n == Len(hist.Close)
        current == hist.Close[n]
        previous == IF n > 1 THEN hist.Close[n - 1] ELSE current
        change == current - previous
        change_pct == fmul(fdiv(change, previous), 100)
    IN  [current |-> current, change |-> change, change_pct |-> change_pct]

\* One iteration of the for loop: the indices still to do and market_data
\* after it.  A lookup that raises is caught inside the iteration (continue).
\* The loop body had the try enclosed the whole loop, so that a lookup that
\* raises ends the loop (faulty variant).
market_iteration_break(todo, provider, data) ==
    LET index == Head(todo)
        hist == provider[index.symbol]
    IN  IF hist.raises THEN [todo |-> <<>>, market_data |-> data]
        ELSE IF hist.Close # <<>>
        THEN [todo |-> Tail(todo),
              market_data |-> DictSet(data, index.name, market_entry(hist))]
        ELSE [todo |-> Tail(todo), market_data |-> data]

market_iteration(todo, provider, data) ==
    LET index == Head(todo)
        hist == provider[index.symbol]
    IN  IF hist.raises THEN [todo |-> Tail(todo), market_data |-> data]
        ELSE IF hist.Close # <<>>
        THEN [todo |-> Tail(todo),
              market_data |-> DictSet(data, index.name, market_entry(hist))]
        ELSE [todo |-> Tail(todo), market_data |-> data]

MarketInit ==
    /\ m_provider \in [IndexSymbols -> Histories]
    /\ m_todo = indices
    /\ market_data = EmptyDict
    /\ m_pc = "loop"

MarketStep ==
    /\ m_pc = "loop"
    /\ m_todo # <<>>
    /\ LET after == market_iteration(m_todo, m_provider, market_data)
       IN  /\ m_todo' = after.todo
           /\ market_data' = after.market_data
    /\ UNCHANGED <<m_provider, m_pc>>

MarketReturn ==
    /\ m_pc = "loop"
    /\ m_todo = <<>>
    /\ m_pc' = "done"
    /\ UNCHANGED <<m_provider, m_todo, market_data>>

InitMarket == SessionInit /\ FetchIdle /\ MarketInit /\ ValidIdle /\ FormatIdle /\ StatIdle /\ TechIdle

NextMarket ==
    \/ MarketStep /\ UNCHANGED <<sessionVars, fetchVars, validVars, formatVars, statVars, techVars>>
    \/ MarketReturn /\ UNCHANGED <<sessionVars, fetchVars, validVars, formatVars, statVars, techVars>>

SpecMarket == InitMarket /\ [][NextMarket]_vars

\* The indices the loop has been through.
Visited == {i \in 1..Len(indices) : \A j \in 1..Len(m_todo) : m_todo[j] # indices[i]}

\* C5: get_market_summary has an entry for an index exactly when that index's
\* own lookup gave a non-empty history, whatever the other lookups did, and it
\* always reaches its return; a one-row history gives change 0.
C5_IndexReportedIffOwnHistory ==
    /\ m_pc = "done" => Visited = 1..Len(indices)
    /\ \A i \in 1..Len(indices) :
          LET hist == m_provider[indices[i].symbol] IN
          /\ indices[i].name \in DOMAIN market_data
                <=> (i \in Visited /\ ~hist.raises /\ hist.Close # <<>>)
          /\ (indices[i].name \in DOMAIN market_data /\ Len(hist.Close) = 1) =>
                /\ market_data[indices[i].name].change = 0
                /\ market_data[indices[i].name].current = hist.Close[1]

\* The summary was returned with the first index failing, the second empty,
\* the third reported from one row and the fourth from two.
C5_Witness ==
    /\ m_pc = "done"
    /\ m_provider["^GSPC"].raises
    /\ ~m_provider["^DJI"].raises /\ m_provider["^DJI"].Close = <<>>
    /\ Len(m_provider["^IXIC"].Close) = 1
    /\ Len(m_provider["^RUT"].Close) = HistDays
    /\ DOMAIN market_data = {"NASDAQ", "Russell 2000"}

(***************************************************************************)
(* SpecValidate: utils.validate_symbol on one input                        *)
(***************************************************************************)
MaxSymLen == 6

Alphabet == {"a", "B", " ", ".", "1"}

\* The inputs the tests of validate_symbol name, and the longest valid shape.
ExampleSymbols ==
    { <<"A","A","P","L">>, <<"B","R","K",".","B">>, <<"A">>, <<>>,
      <<"t","o","o","l","o","n","g","1","2","3">>, <<"1","2","3">>,
      <<"A","A","P","L",".","A","B","C">>,
      <<"a","b","c","d","e",".","f","g">>,
      <<"\t","g","o","o","g","l","\n">>,
      <<"A","A","P","L","\n","\n">>,
      <<"A","A"," ","P","L">> }

ValidateInputs ==
    {None, PyInt(0), PyInt(123)}
    \cup {Str(s) : s \in SeqsUpTo(Alphabet, MaxSymLen)}
    \cup {Str(s) : s \in ExampleSymbols}

ValidateInit == v_input \in ValidateInputs /\ v_result = Pending

Validate ==
    /\ v_result = Pending
    /\ v_result' = Return(validate_symbol(v_input))
    /\ UNCHANGED v_input

InitValidate == SessionInit /\ FetchIdle /\ MarketIdle /\ ValidateInit /\ FormatIdle /\ StatIdle /\ TechIdle

NextValidate ==
    Validate /\ UNCHANGED <<sessionVars, fetchVars, marketVars, formatVars, statVars, techVars>>

SpecValidate == InitValidate /\ [][NextValidate]_vars

\* s without its leading and trailing whitespace: from the first to the last
\* character that is not whitespace.
Trimmed(s) ==
    LET solid == {i \in 1..Len(s) : s[i] \notin Whitespace}
    IN  IF solid = {} THEN <<>> ELSE SubSeq(s, Min(solid), Max(solid))

Number(units, places) ==
    [type |-> "number", kind |-> "num", units |-> units, places |-> places]

Digits == <<"0","1","2","3","4","5","6","7","8","9">>
DigitValue == [c \in {Digits[i] : i \in 1..Len(Digits)} |->
                 (CHOOSE i \in 1..Len(Digits) : Digits[i] = c) - 1]

RECURSIVE Pow10(_)
Pow10(e) == IF e = 0 THEN 1 ELSE 10 * Pow10(e - 1)

\* pd.isna(value) for a scalar
isna(value) ==
    \/ value.type = "NoneType"
    \/ value.type = "float" /\ value.kind = "nan"

RECURSIVE parse_digits(_, _)
parse_digits(s, acc) ==
    IF s = <<>> THEN acc
    ELSE parse_digits(Tail(s), 10 * acc + DigitValue[Head(s)])

\* float(value): the number, or Raise (ValueError, TypeError).  A str converts
\* when, stripped, it is a run of digits (the numeric strings the model uses).
to_float(value) ==
    CASE value.type \in {"number", "float"} -> Return(value)
      [] value.type = "str" ->
            LET s == strip(value.s)
            IN  IF s # <<>> /\ \A i \in 1..Len(s) : s[i] \in DOMAIN DigitValue
                THEN Return(Number(parse_digits(s, 0), 0))
                ELSE Raise
      [] OTHER -> Raise

\* The rungs of the ladder: threshold 10^exp and suffix, highest first.
Ladder ==
    << [exp |-> 9, suffix |-> <<"B">>],
       [exp |-> 6, suffix |-> <<"M">>],
       [exp |-> 3, suffix |-> <<"K">>],
       [exp |-> 0, suffix |-> <<>>] >>

\* abs(value) >= 10^exp
AtLeast(value, exp) ==
    \/ value.kind = "inf"
    \/ value.kind = "num" /\ Abs(value.units) \div Pow10(value.places) >= Pow10(exp)

RECURSIVE digits_of(_)
digits_of(n) ==
    IF n < 10 THEN <<Digits[n + 1]>>
    ELSE digits_of(n \div 10) \o <<Digits[(n % 10) + 1]>>

\* The text of h hundredths with two decimals, e.g. -150 is "-1.50".
two_decimals(h) ==
    (IF h < 0 THEN <<"-">> ELSE <<>>)
    \o digits_of(Abs(h) \div 100)
    \o <<".", Digits[((Abs(h) % 100) \div 10) + 1], Digits[(Abs(h) % 10) + 1]>>

\* The hundredths f"{value / 10^exp:.2f}" can print: the quotient rounded to
\* the nearest hundredth.  On an exact decimal tie the binary float lies just
\* above or just below, so either neighbour can be printed.
hundredths(value, exp) ==
    LET shift == value.places + exp - 2 IN
    IF shift <= 0 THEN {value.units * Pow10(-shift)}
    ELSE LET q == Pow10(shift)
             a == Abs(value.units)
             s == Sign(value.units)
             lo == a \div q
             r2 == 2 * (a % q)
         IN  IF r2 < q THEN {s * lo}
             ELSE IF r2 > q THEN {s * (lo + 1)}
             ELSE {s * lo, s * (lo + 1)}

\* f"${value/10^exp:.2f}{suffix}"
rung_text(value, rung) ==
    IF value.kind = "inf"
    THEN {Str(<<"$">> \o (IF value.sign < 0 THEN <<"-">> ELSE <<>>)
              \o <<"i","n","f">> \o rung.suffix)}
    ELSE {Str(<<"$">> \o two_decimals(h) \o rung.suffix) :
             h \in hundredths(value, rung.exp)}

NA == Str(<<"N","/","A">>)

RECURSIVE ladder_from(_, _)
ladder_from(value, i) ==
    IF i = Len(Ladder) \/ AtLeast(value, Ladder[i].exp)
    THEN rung_text(value, Ladder[i])
    ELSE ladder_from(value, i + 1)

\* The ladder had it compared with > for >= (faulty variant).
RECURSIVE ladder_strict(_, _)
ladder_strict(value, i) ==
    IF \/ i = Len(Ladder)
       \/ /\ AtLeast(value, Ladder[i].exp)
          /\ ~(value.kind = "num"
                 /\ Abs(value.units) % Pow10(value.places) = 0
                 /\ Abs(value.units) \div Pow10(value.places) = Pow10(Ladder[i].exp))
    THEN rung_text(value, Ladder[i])
    ELSE ladder_strict(value, i + 1)

\* format_currency with the strict ladder (faulty variant).
format_currency_strict(value) ==
    IF isna(value) THEN {NA}
    ELSE LET f == to_float(value)
         IN  IF f.kind = "raise" THEN {NA} ELSE ladder_strict(f.value, 1)

\* format_currency(value): the strings it can return (one, except on a tie).
format_currency(value) ==
    IF isna(value) THEN {NA}
    ELSE LET f == to_float(value)
         IN  IF f.kind = "raise" THEN {NA} ELSE ladder_from(f.value, 1)

(***************************************************************************)
(* SpecFormat: utils.format_currency on one value                          *)
(***************************************************************************)
MaxDelta == 5

\* Whole-dollar values around every threshold of the ladder, both signs.
DollarValues ==
    {Number(s * (b + d), 0) :
        s \in {-1, 1}, b \in {0, Pow10(3), Pow10(6), Pow10(9), 15 * Pow10(8)},
        d \in (-MaxDelta)..MaxDelta}

\* Values with cents around the lower thresholds.
CentValues ==
    {Number(s * (b * 100 + d), 2) :
        s \in {-1, 1}, b \in {0, Pow10(3), Pow10(6)}, d \in (-MaxDelta)..MaxDelta}

CurrencyInputs ==
    {None, NaN, Inf(1), Inf(-1), [type |-> "dict"],
     Str(<<>>), Str(<<"N","/","A">>), Str(<<"a","b","c">>),
     Str(<<"1","5","0","0">>), Str(<<" ","4","2"," ">>)}
    \cup DollarValues \cup CentValues

FormatInit == c_value \in CurrencyInputs /\ c_result = Pending

FormatCurrency ==
    /\ c_result = Pending
    /\ \E text \in format_currency(c_value) : c_result' = Return(text)
    /\ UNCHANGED c_value

InitFormat == SessionInit /\ FetchIdle /\ MarketIdle /\ ValidIdle /\ FormatInit /\ StatIdle /\ TechIdle

NextFormat ==
    FormatCurrency /\ UNCHANGED <<sessionVars, fetchVars, marketVars, validVars, statVars, techVars>>

SpecFormat == InitFormat /\ [][NextFormat]_vars

\* The values format_currency cannot turn into a number.
NotANumber(value) ==
    \/ value.type \in {"NoneType", "dict"}
    \/ value.type = "float" /\ value.kind = "nan"
    \/ value.type = "str" /\ value \notin {Str(<<"1","5","0","0">>), Str(<<" ","4","2"," ">>)}

\* abs(value) >= 10^exp, on the units (a 32-bit units / 10^places is below
\* 10^exp when exp + places > 9); the strings of the model convert to 1500, 42.
MagnitudeAtLeast(value, exp) ==
    CASE value.type = "str" ->
            (IF value = Str(<<"1","5","0","0">>) THEN 1500 ELSE 42) >= Pow10(exp)
      [] value.kind = "inf" -> TRUE
      [] OTHER -> exp + value.places <= 9 /\ Abs(value.units) >= Pow10(exp + value.places)

Suffix(value) ==
    IF MagnitudeAtLeast(value, 9) THEN <<"B">>
    ELSE IF MagnitudeAtLeast(value, 6) THEN <<"M">>
    ELSE IF MagnitudeAtLeast(value, 3) THEN <<"K">>
    ELSE <<>>

EndsWith(s, suffix) ==
    /\ Len(s) >= Len(suffix)
    /\ SubSeq(s, Len(s) - Len(suffix) + 1, Len(s)) = suffix

FAdd(a, b) == Num(a.num * b.den + b.num * a.den, a.den * b.den)
FSub(a, b) == Num(a.num * b.den - b.num * a.den, a.den * b.den)
FMul(a, b) == Num(a.num * b.num, a.den * b.den)
FLess(a, b) == a.num * b.den < b.num * a.den

\* sqrt(x) for a fraction x >= 0
Sqrt(x) == IF x.num = 0 THEN x ELSE [type |-> "float", kind |-> "sqrt", radicand |-> x]

RECURSIVE FSum(_)
FSum(xs) == IF xs = <<>> THEN Num(0, 1) ELSE FAdd(Head(xs), FSum(Tail(xs)))

\* Series.mean() of a non-empty series
mean(xs) == FMul(FSum(xs), Num(1, Len(xs)))

\* Series.std() had it used ddof = 0, the population deviation, which is 0
\* for a single value (faulty variant).
std_population(xs) ==
    LET m == mean(xs)
        squares == [i \in 1..Len(xs) |-> FMul(FSub(xs[i], m), FSub(xs[i], m))]
    IN  Sqrt(FMul(FSum(squares), Num(1, Len(xs))))

\* Series.std(): the sample deviation (ddof = 1), NaN for fewer than 2 values
std(xs) ==
    IF Len(xs) < 2 THEN NaN
    ELSE LET m == mean(xs)
             squares == [i \in 1..Len(xs) |-> FMul(FSub(xs[i], m), FSub(xs[i], m))]
         IN  Sqrt(FMul(FSum(squares), Num(1, Len(xs) - 1)))

\* calculate_returns: prices.pct_change().dropna(); the first position has
\* no change (NaN) and is dropped.
calculate_returns(p) ==
    IF p = <<>> THEN <<>>
    ELSE [i \in 1..(Len(p) - 1) |-> Num(p[i + 1] - p[i], p[i])]

TradingDays == 252

\* x * np.sqrt(periods) for x = NaN, 0 or a square root
times_sqrt(x, periods) ==
    CASE x.kind = "nan" -> NaN
      [] x.kind = "num" -> x
      [] OTHER -> Sqrt(FMul(x.radicand, Num(periods, 1)))

\* calculate_volatility(returns, periods=252)
calculate_volatility(r, periods) ==
    IF r = <<>> THEN NaN ELSE times_sqrt(std(r), periods)

\* calculate_sharpe_ratio(returns, risk_free_rate=0.02, periods=252), the
\* rate given in hundredths: mean(excess) / std * sqrt(periods), kept as its
\* three parts when std is a positive number.
calculate_sharpe_ratio(r, risk_free_pct, periods) ==
    IF r = <<>> THEN NaN
    ELSE LET excess == [i \in 1..Len(r) |-> FSub(r[i], Num(risk_free_pct, 100 * periods))]
             m == mean(excess)
             s == std(r)
         IN  CASE s.kind = "nan" -> NaN
               [] s.kind = "num" -> IF m.num = 0 THEN NaN ELSE Inf(Sign(m.num))
               [] OTHER -> [type |-> "float", kind |-> "sharpe",
                            mean |-> m, variance |-> s.radicand, periods |-> periods]

\* prices.expanding().max()
running_max(p) == [i \in 1..Len(p) |-> Max({p[j] : j \in 1..i})]

RECURSIVE FMin(_)
FMin(xs) ==
    IF Len(xs) = 1 THEN xs[1]
    ELSE LET rest == FMin(Tail(xs))
         IN  IF FLess(rest, Head(xs)) THEN rest ELSE Head(xs)

\* The drawdown of the last position only, drawdown.iloc[-1] for
\* drawdown.min() (faulty variant).
calculate_max_drawdown_last(p) ==
    IF p = <<>> THEN NaN
    ELSE Num(p[Len(p)] - running_max(p)[Len(p)], running_max(p)[Len(p)])

\* calculate_max_drawdown
calculate_max_drawdown(p) ==
    IF p = <<>> THEN NaN
    ELSE LET rm == running_max(p)
             drawdown == [i \in 1..Len(p) |-> Num(p[i] - rm[i], rm[i])]
         IN  FMin(drawdown)

RECURSIVE Sum(_, _, _)
Sum(p, lo, hi) == IF lo > hi THEN 0 ELSE p[lo] + Sum(p, lo + 1, hi)

\* ma = prices.rolling(window).mean() at position i (1-based): NaN until the
\* window is full, else the mean of the `w` prices ending at i.
rolling_mean(p, w, i) == IF i < w THEN NaN ELSE Num(Sum(p, i - w + 1, i), w)

\* The label for change_pct = (current_ma - previous_ma) / previous_ma * 100.
\* When the change is exactly +/-2 per cent the float result of the four
\* rounded operations can fall on either side of the threshold.
trend_label(current_ma, previous_ma) ==
    LET change == FSub(current_ma, previous_ma)
        up == FMul(previous_ma, Num(2, 100))
        down == FMul(previous_ma, Num(-2, 100))
    IN  IF FLess(up, change) THEN {"Upward"}
        ELSE IF FLess(change, down) THEN {"Downward"}
        ELSE IF change = up /\ change.num # 0 THEN {"Sideways", "Upward"}
        ELSE IF change = down /\ change.num # 0 THEN {"Sideways", "Downward"}
        ELSE {"Sideways"}

\* A trend taken from the first and last price, not from the moving average
\* (faulty variant).
determine_trend_endpoints(p, w) ==
    IF Len(p) < w THEN {"Insufficient Data"}
    ELSE trend_label(Num(p[Len(p)], 1), Num(p[1], 1))

\* previous_ma read at iloc[-(window // 2)], not at iloc[-window // 2]; for a
\* window of 1 that is iloc[0] (faulty variant).
determine_trend_halfback(p, w) ==
    IF Len(p) < w THEN {"Insufficient Data"}
    ELSE LET current_ma == rolling_mean(p, w, Len(p))
             back == w \div 2
             previous_ma ==
                 rolling_mean(p, w, IF back = 0 THEN 1 ELSE Len(p) - back + 1)
         IN  IF current_ma.kind = "nan" \/ previous_ma.kind = "nan"
             THEN {"Insufficient Data"}
             ELSE trend_label(current_ma, previous_ma)

\* determine_trend(prices, window): the labels it can return.  iloc[-1] is
\* position Len(p), iloc[-window//2] is position Len(p) + (-w) // 2 + 1.
determine_trend(p, w) ==
    IF Len(p) < w THEN {"Insufficient Data"}
    ELSE LET current_ma == rolling_mean(p, w, Len(p))
             previous_ma == rolling_mean(p, w, Len(p) + ((-w) \div 2) + 1)
         IN  IF current_ma.kind = "nan" \/ previous_ma.kind = "nan"
             THEN {"Insufficient Data"}
             ELSE trend_label(current_ma, previous_ma)

(***************************************************************************)
(* SpecStats: the summary statistics of one short price series             *)
(***************************************************************************)
MaxPrice == 3
MaxLen == 4

\* determine_trend(prices, window=20)
DefaultWindow == 20

\* calculate_sharpe_ratio(risk_free_rate=0.02), in hundredths
RiskFreePct == 2

StatsInit ==
    /\ prices \in SeqsUpTo(1..MaxPrice, MaxLen)
    /\ window \in {3, DefaultWindow}
    /\ returns = Pending
    /\ volatility = Pending
    /\ sharpe = Pending
    /\ max_drawdown = Pending
    /\ trend = Pending

CalcReturns ==
    /\ returns = Pending
    /\ returns' = Return(calculate_returns(prices))
    /\ UNCHANGED <<prices, window, volatility, sharpe, max_drawdown, trend>>

CalcVolatility ==
    /\ returns # Pending
    /\ volatility = Pending
    /\ volatility' = Return(calculate_volatility(returns.value, TradingDays))
    /\ UNCHANGED <<prices, window, returns, sharpe, max_drawdown, trend>>

CalcSharpe ==
    /\ returns # Pending
    /\ sharpe = Pending
    /\ sharpe' = Return(calculate_sharpe_ratio(returns.value, RiskFreePct, TradingDays))
    /\ UNCHANGED <<prices, window, returns, volatility, max_drawdown, trend>>

CalcMaxDrawdown ==
    /\ max_drawdown = Pending
    /\ max_drawdown' = Return(calculate_max_drawdown(prices))
    /\ UNCHANGED <<prices, window, returns, volatility, sharpe, trend>>

DetermineTrend ==
    /\ trend = Pending
    /\ \E label \in determine_trend(prices, window) : trend' = Return(label)
    /\ UNCHANGED <<prices, window, returns, volatility, sharpe, max_drawdown>>

InitStats == SessionInit /\ FetchIdle /\ MarketIdle /\ ValidIdle /\ FormatIdle /\ StatsInit /\ TechIdle

NextStats ==
    \/ CalcReturns /\ UNCHANGED <<sessionVars, fetchVars, marketVars, validVars, formatVars, techVars>>
    \/ CalcVolatility /\ UNCHANGED <<sessionVars, fetchVars, marketVars, validVars, formatVars, techVars>>
    \/ CalcSharpe /\ UNCHANGED <<sessionVars, fetchVars, marketVars, validVars, formatVars, techVars>>
    \/ CalcMaxDrawdown /\ UNCHANGED <<sessionVars, fetchVars, marketVars, validVars, formatVars, techVars>>
    \/ DetermineTrend /\ UNCHANGED <<sessionVars, fetchVars, marketVars, validVars, formatVars, techVars>>

SpecStats == InitStats /\ [][NextStats]_vars

\* (price - highest price so far) / highest price so far, at position i
DrawdownAt(p, i) ==
    LET peak == Max({p[j] : j \in 1..i}) IN Num(p[i] - peak, peak)

NonDecreasing(p) == \A i \in 1..(Len(p) - 1) : p[i] <= p[i + 1]

\* C8: for a non-empty series of positive prices calculate_max_drawdown is
\* <= 0, is the least of the drawdowns (price - running maximum) / running
\* maximum over all positions, and is 0 exactly when the series never falls;
\* for an empty series it is NaN.
C8_MaxDrawdownIsLeastDrawdown ==
    max_drawdown # Pending =>
        /\ max_drawdown.kind = "return"
        /\ prices = <<>> => max_drawdown.value = NaN
        /\ prices # <<>> =>
              /\ max_drawdown.value.kind = "num"
              /\ max_drawdown.value.num <= 0
              /\ \E i \in 1..Len(prices) : max_drawdown.value = DrawdownAt(prices, i)
              /\ \A i \in 1..Len(prices) :
                    ~FLess(DrawdownAt(prices, i), max_drawdown.value)
              /\ (max_drawdown.value.num = 0) <=> NonDecreasing(prices)

\* The deepest drawdown of a series lies in its middle, not at its end.
C8_Witness ==
    /\ prices = <<2, 1, 3>>
    /\ max_drawdown = Return(Num(-1, 2))

\* C10 as claimed: on a series of at most two prices every statistic yields
\* its no-data sentinel (empty series, NaN, "Insufficient Data").
C10_EveryStatisticIsSentinel ==
    Len(prices) <= 2 =>
        /\ returns # Pending => returns = Return(<<>>)
        /\ volatility # Pending => volatility = Return(NaN)
        /\ sharpe # Pending => sharpe = Return(NaN)
        /\ max_drawdown # Pending => max_drawdown = Return(NaN)
        /\ trend # Pending => trend = Return("Insufficient Data")

\* C10 as amended: on a series of at most two prices nothing raises;
\* volatility and Sharpe ratio are NaN and the trend is "Insufficient Data";
\* the returns are empty for fewer than two prices and the one return for
\* two; the maximum drawdown is NaN only for the empty series and else the
\* real drawdown: 0 for one price, min(0, (p2 - p1) / p1) for two.
C10_ShortSeriesStatistics ==
    Len(prices) <= 2 =>
        /\ returns # Pending =>
              /\ returns.kind = "return"
              /\ Len(prices) <= 1 => returns.value = <<>>
              /\ Len(prices) = 2 =>
                    returns.value = <<Num(prices[2] - prices[1], prices[1])>>
        /\ volatility # Pending => volatility = Return(NaN)
        /\ sharpe # Pending => sharpe = Return(NaN)
        /\ trend # Pending => trend = Return("Insufficient Data")
        /\ max_drawdown # Pending =>
              /\ max_drawdown.kind = "return"
              /\ Len(prices) = 0 => max_drawdown.value = NaN
              /\ Len(prices) = 1 => max_drawdown.value = Num(0, 1)
              /\ Len(prices) = 2 =>
                    max_drawdown.value =
                       IF prices[2] < prices[1]
                       THEN Num(prices[2] - prices[1], prices[1])
                       ELSE Num(0, 1)

\* Every statistic of a falling two-price series has been computed.
C10_Witness ==
    /\ prices = <<2, 1>>
    /\ returns = Return(<<Num(-1, 2)>>)
    /\ volatility = Return(NaN)
    /\ sharpe = Return(NaN)
    /\ max_drawdown = Return(Num(-1, 2))
    /\ trend = Return("Insufficient Data")

(***************************************************************************)
(* SpecTrend: determine_trend on 30-point series that rise by 1 a day,     *)
(* fall by 1 a day, or are flat                                            *)
(***************************************************************************)
MaxStart == 450

Rising(s) == [i \in 1..30 |-> s + i - 1]
Falling(s) == [i \in 1..30 |-> s + 30 - i]
Flat(s) == [i \in 1..30 |-> s]

TrendInit ==
    /\ prices \in UNION {{Rising(s), Falling(s), Flat(s)} : s \in 1..MaxStart}
    /\ window = DefaultWindow
    /\ returns = Pending
    /\ volatility = Pending
    /\ sharpe = Pending
    /\ max_drawdown = Pending
    /\ trend = Pending

InitTrend == SessionInit /\ FetchIdle /\ MarketIdle /\ ValidIdle /\ FormatIdle /\ TrendInit /\ TechIdle

NextTrend ==
    DetermineTrend /\ UNCHANGED <<sessionVars, fetchVars, marketVars, validVars, formatVars, techVars>>

SpecTrend == InitTrend /\ [][NextTrend]_vars

IsRising(p) == \A i \in 1..(Len(p) - 1) : p[i + 1] = p[i] + 1
IsFalling(p) == \A i \in 1..(Len(p) - 1) : p[i + 1] = p[i] - 1
IsFlat(p) == \A i \in 1..(Len(p) - 1) : p[i + 1] = p[i]

MaxHistLen == 15

\* rolling(window=14) of the RSI
RsiWindow == 14

CloseLevels == {1, 2}

\* The keys calculate_technical_indicators fills.  The model computes the
\* RSI column; the moving averages, MACD and the bands are columns of the
\* same length that the RSI lines do not read.
IndicatorKeys ==
    {"SMA_20", "SMA_50", "SMA_200", "EMA_12", "EMA_26", "MACD", "MACD_Signal",
     "RSI", "Bollinger_Upper", "Bollinger_Lower"}

\* delta = history['Close'].diff() at position i (1-based): NaN at the first
delta(close, i) == IF i = 1 THEN NaN ELSE Num(close[i] - close[i - 1], 1)

\* delta.where(delta > 0, 0) at position i: NaN > 0 is False, so the first
\* position holds 0.
gain_day(close, i) ==
    LET d == delta(close, i)
    IN  IF d.kind = "num" /\ d.num > 0 THEN d.num ELSE 0

\* -delta.where(delta < 0, 0) at position i
loss_day(close, i) ==
    LET d == delta(close, i)
    IN  IF d.kind = "num" /\ d.num < 0 THEN -d.num ELSE 0

\* gain = (...).rolling(window=14).mean() at position i
gain(close, i) ==
    rolling_mean([j \in 1..Len(close) |-> gain_day(close, j)], RsiWindow, i)

\* loss = (...).rolling(window=14).mean() at position i
loss(close, i) ==
    rolling_mean([j \in 1..Len(close) |-> loss_day(close, j)], RsiWindow, i)

\* rs = gain / loss at position i: float division, x/0 is inf and 0/0 is nan
rs(close, i) ==
    LET g == gain(close, i)
        l == loss(close, i)
    IN  IF g.kind = "nan" \/ l.kind = "nan" THEN NaN
        ELSE fdiv(g.num * l.den, l.num * g.den)

\* 100 - (100 / (1 + rs)) at position i: nan stays nan, 100 / inf is 0
RSI(close, i) ==
    LET r == rs(close, i)
    IN  CASE r.kind = "nan" -> NaN
          [] r.kind = "inf" -> Num(100, 1)
          [] OTHER -> Num(100 * r.num, r.den + r.num)

\* calculate_technical_indicators(history), history given by its Close column
calculate_technical_indicators(close) ==
    IF close = <<>> THEN [keys |-> {}]
    ELSE [keys |-> IndicatorKeys,
          RSI |-> [i \in 1..Len(close) |-> RSI(close, i)]]

IndicatorsInit ==
    /\ t_history \in SeqsUpTo(CloseLevels, MaxHistLen)
    /\ indicators = Pending

CalcIndicators ==
    /\ indicators = Pending
    /\ indicators' = Return(calculate_technical_indicators(t_history))
    /\ UNCHANGED t_history

InitIndicators ==
    /\ SessionInit /\ FetchIdle /\ MarketIdle /\ ValidIdle /\ FormatIdle
    /\ StatIdle /\ IndicatorsInit

NextIndicators ==
    CalcIndicators /\ UNCHANGED <<sessionVars, fetchVars, marketVars, validVars, formatVars, statVars>>

SpecIndicators == InitIndicators /\ [][NextIndicators]_vars

\* No close of the 14-position window ending at i is below the close before.
NoLosingDay(close, i) ==
    \A j \in (i - RsiWindow + 1)..i : j > 1 => close[j] >= close[j - 1]

\* C11: at every position where the 14-period window is full and holds no
\* losing day (a flat window included) the RSI is 100 and not NaN, and every
\* RSI value that is defined lies between 0 and 100.
C11_RsiDefinedWithoutLoss ==
    (indicators # Pending /\ t_history # <<>>) =>
        \A i \in 1..Len(t_history) :
            LET v == indicators.value.RSI[i]
            IN  /\ (i >= RsiWindow /\ NoLosingDay(t_history, i)) => v = Num(100, 1)
                /\ v.kind # "nan" =>
                      /\ v.kind = "num"
                      /\ 0 <= v.num
                      /\ v.num <= 100 * v.den

(***************************************************************************)
(* SpecTrendAny: determine_trend for small windows on every short series   *)
(* over three price levels, and for the default window on series of 19 and *)
(* more points that step once from one level to another                    *)
(***************************************************************************)
MaxWindow == 4
MaxTrendLen == 6
MaxExtra == 10

\* 50 and the levels 6 per cent below and above it
TrendLevels == {47, 50, 53}

\* n points: k at level a, then n - k at level b
Step(n, k, a, b) == [i \in 1..n |-> IF i <= k THEN a ELSE b]

StepSeries ==
    {Step(n, k, a, b) :
        n \in (DefaultWindow - 1)..(DefaultWindow + MaxExtra),
        k \in 0..(DefaultWindow + MaxExtra),
        a \in TrendLevels, b \in TrendLevels}

TrendAnyInit ==
    /\ \/ /\ window \in 1..MaxWindow
          /\ prices \in SeqsUpTo(TrendLevels, MaxTrendLen)
       \/ /\ window = DefaultWindow
          /\ prices \in StepSeries
    /\ returns = Pending
    /\ volatility = Pending
    /\ sharpe = Pending
    /\ max_drawdown = Pending
    /\ trend = Pending

InitTrendAny ==
    /\ SessionInit /\ FetchIdle /\ MarketIdle /\ ValidIdle /\ FormatIdle
    /\ TrendAnyInit /\ TechIdle

NextTrendAny ==
    DetermineTrend /\ UNCHANGED <<sessionVars, fetchVars, marketVars, validVars, formatVars, techVars>>

SpecTrendAny == InitTrendAny /\ [][NextTrendAny]_vars

TrendLabels == {"Upward", "Downward", "Sideways"}

\* C13 as claimed: "Insufficient Data" exactly when the series is shorter
\* than the window, and one of the three trend labels for every series of at
\* least window points.
C13_InsufficientIffShorterThanWindow ==
    trend # Pending =>
        /\ trend.kind = "return"
        /\ (trend.value = "Insufficient Data") <=> (Len(prices) < window)
        /\ Len(prices) >= window => trend.value \in TrendLabels

\* window / 2 rounded up: iloc[-window // 2] is that many positions from the end
HalfUp(w) == (w + 1) \div 2

\* The sum of the w prices ending at position i
WindowSum(p, w, i) == Sum(p, i - w + 1, i)

\* C13 as amended: determine_trend returns "Insufficient Data" exactly when
\* the series has fewer than window + ceil(window / 2) - 1 points (29 for
\* the default window), the fewest for which the moving average
\* ceil(window / 2) positions from the end exists.  Otherwise the label
\* compares the last moving average with that one: "Upward" for a change
\* above +2 per cent, "Downward" below -2 per cent, "Sideways" between; at
\* exactly +/-2 per cent it is "Sideways" or, by float rounding, the label
\* of that side.
C13_TrendAgainstHalfWindowBack ==
    trend # Pending =>
        LET n == Len(prices)
            need == window + HalfUp(window) - 1
        IN  /\ trend.kind = "return"
            /\ (trend.value = "Insufficient Data") <=> (n < need)
            /\ n >= need =>
                  LET cur == WindowSum(prices, window, n)
                      prev == WindowSum(prices, window, n - HalfUp(window) + 1)
                      change == 100 * (cur - prev)
                  IN  /\ change > 2 * prev => trend.value = "Upward"
                      /\ change < -2 * prev => trend.value = "Downward"
                      /\ (-2 * prev < change /\ change < 2 * prev) =>
                            trend.value = "Sideways"
                      /\ change = 2 * prev => trend.value \in {"Sideways", "Upward"}
                      /\ change = -2 * prev => trend.value \in {"Sideways", "Downward"}

\* A rising series with the default window and 28 points, one short of the
\* 29 that the earlier moving average needs.
C13_Witness ==
    /\ window = DefaultWindow
    /\ prices = Step(28, 14, 50, 53)
    /\ trend = Return("Insufficient Data")

====
